---------------------------- MODULE Spec2Model ----------------------------
(***************************************************************************)
(* The unconfirmed-transaction pool CTxMemPool of src/src/txmempool.cpp:   *)
(* the entry map mapTx, the spend index mapNextTx, the running size total, *)
(* the transactions-updated counter, the prioritisation deltas, the        *)
(* rolling minimum fee and the calls the pool makes into the fee           *)
(* estimator.                                                              *)
(***************************************************************************)
EXTENDS Integers, Sequences, FiniteSets, TLC

VARIABLES
    mapTx,                 \* hash -> CTxMemPoolEntry
    mapNextTx,             \* COutPoint -> CInPoint (ptx named by its hash, n)
    totalTxSize,           \* running sum of entry sizes
    nTransactionsUpdated,  \* the transactions-updated counter
    mapDeltas,             \* hash -> accumulated (priority, fee) delta
    pending,               \* estimator: hashes with a pending observation
    samples,               \* estimator: hashes recorded as confirmation samples
    fSanityCheck,          \* the sanity-check flag
    asserted,              \* an assert() failed: the process has aborted
    minRelayFee,           \* the baseline relay fee per kB given to the constructor
    rollingMinimumFeeRate, \* the stored rolling minimum, in 1/FeeScale per kB
    lastRollingFeeUpdate,  \* the time of its last recomputation
    now,                   \* the wall clock GetTime() reads
    feeReturns,            \* the fee rates GetMinFee has returned, in call order
    removed,               \* the caller's removed/conflicts list, as the last
                           \* removing call filled it
    lastOp,                \* the last pool call and its arguments
    callers,               \* per calling thread: where it is, and its tx
    raced,                 \* another thread's call ran between a thread's
                           \* removeConflicts and its addUnchecked
    contractHeld,          \* no admission so far claimed an outpoint another
                           \* resident entry already claimed
    feeSamples,            \* CBlockAverage: the ring of fee samples
    prioritySamples,       \* CBlockAverage: the ring of priority samples
    stream,                \* the estimates file, as the values serialised
    readResult,            \* what ReadFeeEstimates returned, when it was the
                           \* last call ("none" otherwise)
    readInvoked,           \* whether that call invoked the estimator's Read
    restored,              \* a second CBlockAverage, when the last call
                           \* filled it by Read
    theEntry,              \* a CTxMemPoolEntry whose priority is asked for
    dResult,               \* what GetPriority returned, and for which height
    base,                  \* the coins view under CCoinsViewMemPool
    coinsResult,           \* the GetCoins calls made so far and what the
                           \* last one returned
    cs,                    \* the thread that holds the pool lock, or "none"
    blockCall,             \* the removeForBlock call in progress: where it
                           \* is, its block and the entries it captured
    audit,                 \* the check call in progress: where it is and
                           \* the sizes its log line read
    lookedUp,              \* what the last lookup returned
    seen,                  \* what a caller last read: the counter, and the
                           \* resident hashes at that moment
    checkCall              \* the audit of check in progress: where it is,
                           \* its arguments, its queue and its coins view

vars == <<mapTx, mapNextTx, totalTxSize, nTransactionsUpdated, mapDeltas,
          pending, samples, fSanityCheck, asserted, removed, lastOp,
          callers, raced, contractHeld, minRelayFee, rollingMinimumFeeRate,
          lastRollingFeeUpdate, now, feeReturns, feeSamples,
          prioritySamples, stream, readResult, readInvoked, restored,
          theEntry, dResult, base, coinsResult, cs, blockCall, audit, lookedUp,
          seen, checkCall>>

poolVars == <<mapTx, mapNextTx, totalTxSize, nTransactionsUpdated, mapDeltas,
              pending, samples, fSanityCheck, asserted, removed, lastOp,
              callers, raced, contractHeld>>

feeVars == <<minRelayFee, rollingMinimumFeeRate, lastRollingFeeUpdate, now,
             feeReturns>>

avgVars == <<feeSamples, prioritySamples, stream, readResult, readInvoked,
             restored>>

entryVars == <<theEntry, dResult>>

viewVars == <<base, coinsResult>>

threadVars == <<cs, blockCall, audit, lookedUp>>

watchVars == <<seen, checkCall>>

\* the variables outside the pool and the rolling fee
extVars == <<avgVars, entryVars, viewVars, threadVars, watchVars>>

\* the variables outside CBlockAverage and the estimates file
outsideAvg == <<poolVars, feeVars, entryVars, viewVars, threadVars, watchVars>>

\* the variables outside the entry whose priority is asked for
outsideEntry == <<poolVars, feeVars, avgVars, viewVars, threadVars, watchVars>>

\* the variables CCoinsViewMemPool::GetCoins leaves alone
outsideView == <<poolVars, feeVars, avgVars, entryVars, threadVars, watchVars>>

-----------------------------------------------------------------------------
(* The transactions the callers hand to the pool.  Hashes are the numbers  *)
(* 1..5 (std::map iterates them in this order); 11 and 12 are confirmed    *)
(* transactions of the chain.  1 <- 2 <- 3 is a chain, 4 double-spends     *)
(* 11:0 against 1 (at its input 1), 5 spends outputs of 1 and 2 and        *)
(* double-spends 2:0 against 3.                                            *)

COutPoint(h, i) == [hash |-> h, n |-> i]

CInPoint(t, i) == [ptx |-> t, n |-> i]

TxVin ==
    << << COutPoint(11, 0) >>,
       << COutPoint(1, 1) >>,
       << COutPoint(2, 0) >>,
       << COutPoint(12, 0), COutPoint(11, 0) >>,
       << COutPoint(1, 0), COutPoint(2, 0) >> >>

TxNVout == << 2, 1, 1, 1, 1 >>

TxSize == << 100, 120, 130, 150, 170 >>

Tx == 1 .. Len(TxVin)

\* the cap on nTransactionsUpdated under which calls are explored
MaxUpdated == 5

\* a value the uninitialised totalTxSize may hold besides 0
Indeterminate == 7

Range(s) == { s[i] : i \in 1 .. Len(s) }

Drop(f, S) == [x \in DOMAIN f \ S |-> f[x]]

\* sequence of the elements of a set of numbers, ascending (map iteration)
RECURSIVE Ascending(_)
Ascending(S) ==
    IF S = {} THEN << >>
    ELSE LET m == CHOOSE x \in S : \A y \in S : x <= y
         IN  << m >> \o Ascending(S \ {m})

PoolState ==
    [mapTx |-> mapTx, mapNextTx |-> mapNextTx, totalTxSize |-> totalTxSize,
     nTransactionsUpdated |-> nTransactionsUpdated, mapDeltas |-> mapDeltas,
     pending |-> pending, samples |-> samples, asserted |-> asserted,
     removed |-> removed]

\* the pool as a removing call finds it: the caller passes an empty list
FreshList == [PoolState EXCEPT !.removed = << >>]

-----------------------------------------------------------------------------
(* CTxMemPool::HasNoInputsOf: no input of tx spends a resident transaction *)
HasNoInputsOf(st, t) ==
    \A i \in 1 .. Len(TxVin[t]) : TxVin[t][i].hash \notin DOMAIN st.mapTx

(* The entry AcceptToMemoryPool builds for tx.                             *)
CTxMemPoolEntry(st, t) ==
    [tx |-> t, nTxSize |-> TxSize[t], hadNoDependencies |-> HasNoInputsOf(st, t)]

(* CBlockPolicyEstimator::processTransaction, removeTx, processBlock *)
processTransaction(st, entry, fCurrentEstimate) ==
    IF fCurrentEstimate /\ entry.hadNoDependencies
    THEN [st EXCEPT !.pending = @ \cup {entry.tx}]
    ELSE st

removeTx(st, hash) == [st EXCEPT !.pending = @ \ {hash}]

processBlock(st, entries, fCurrentEstimate) ==
    [st EXCEPT !.samples = @ \cup { e.tx : e \in { x \in Range(entries) : x.tx \in st.pending } },
               !.pending = @ \ { e.tx : e \in Range(entries) }]

-----------------------------------------------------------------------------
RECURSIVE IndexInputsAtZero(_, _, _)
IndexInputsAtZero(idx, t, i) ==
    IF i > Len(TxVin[t]) THEN idx
    ELSE IndexInputsAtZero(
            [o \in DOMAIN idx \cup {TxVin[t][i]} |->
                IF o = TxVin[t][i] THEN CInPoint(t, 0) ELSE idx[o]],
            t, i + 1)

IndexInputsFirstOnly(idx, t, i) ==
    [o \in DOMAIN idx \cup {TxVin[t][1]} |->
        IF o = TxVin[t][1] THEN CInPoint(t, 0) ELSE idx[o]]

(* mapNextTx[tx.vin[i].prevout] = CInPoint(&tx, i), for i ascending *)
RECURSIVE IndexInputs(_, _, _)
IndexInputs(idx, t, i) ==
    IF i > Len(TxVin[t]) THEN idx
    ELSE IndexInputs(
            [o \in DOMAIN idx \cup {TxVin[t][i]} |->
                IF o = TxVin[t][i] THEN CInPoint(t, i - 1) ELSE idx[o]],
            t, i + 1)

(* CTxMemPool::addUnchecked *)
addUnchecked(st, hash, entry, fCurrentEstimate) ==
    LET st1 == [st EXCEPT
                  !.mapTx = [h \in DOMAIN st.mapTx \cup {hash} |->
                                IF h = hash THEN entry ELSE st.mapTx[h]],
                  !.mapNextTx = IndexInputs(st.mapNextTx, entry.tx, 1),
                  !.nTransactionsUpdated = @ + 1,
                  !.totalTxSize = @ + entry.nTxSize]
    IN  processTransaction(st1, entry, fCurrentEstimate)

(* BOOST_FOREACH (txin, tx.vin) mapNextTx.erase(txin.prevout) *)
DeindexFirstInputOnly(idx, tx) == Drop(idx, {TxVin[tx][1]})

DeindexInputs(idx, tx) == Drop(idx, Range(TxVin[tx]))

ChildrenOfFirstOutput(idx, hash, nvout) ==
    IF nvout > 0 /\ COutPoint(hash, 0) \in DOMAIN idx
    THEN << idx[COutPoint(hash, 0)].ptx >>
    ELSE << >>

(* the hashes it->second.ptx->GetHash() found for COutPoint(hash, i),      *)
(* i = 0 .. vout.size()-1, in that order                                   *)
ChildrenOf(idx, hash, nvout) ==
    LET outs == [i \in 1 .. nvout |-> COutPoint(hash, i - 1)]
        found == SelectSeq(outs, LAMBDA o : o \in DOMAIN idx)
    IN  [k \in 1 .. Len(found) |-> idx[found[k]].ptx]

(* the while (!txToRemove.empty()) loop of CTxMemPool::remove *)
RECURSIVE RemoveLoop(_, _, _)
RemoveLoop(st, txToRemove, fRecursive) ==
    IF txToRemove = << >> THEN st
    ELSE LET hash == Head(txToRemove)
             rest == Tail(txToRemove)
         IN  IF hash \notin DOMAIN st.mapTx
             THEN RemoveLoop(st, rest, fRecursive)
             ELSE LET tx == st.mapTx[hash].tx
                      more == IF fRecursive
                              THEN ChildrenOf(st.mapNextTx, hash, TxNVout[tx])
                              ELSE << >>
                      st1 == [st EXCEPT
                                !.mapNextTx = DeindexInputs(@, tx),
                                !.removed = Append(@, tx),
                                !.totalTxSize = @ - st.mapTx[hash].nTxSize,
                                !.mapTx = Drop(@, {hash}),
                                !.nTransactionsUpdated = @ + 1]
                  IN  RemoveLoop(removeTx(st1, hash), rest \o more, fRecursive)

removeResidentOnly(st, origTx, fRecursive) ==
    RemoveLoop(st, << origTx >>, fRecursive)

(* CTxMemPool::remove *)
remove(st, origTx, fRecursive) ==
    LET first == IF fRecursive /\ origTx \notin DOMAIN st.mapTx
                 THEN ChildrenOf(st.mapNextTx, origTx, TxNVout[origTx])
                 ELSE << >>
    IN  RemoveLoop(st, << origTx >> \o first, fRecursive)

clearWithDeltas(st) ==
    [st EXCEPT !.mapTx = << >>, !.mapNextTx = << >>, !.totalTxSize = 0,
               !.mapDeltas = << >>, !.nTransactionsUpdated = @ + 1]

clearKeepsCounter(st) ==
    [st EXCEPT !.mapTx = << >>, !.mapNextTx = << >>, !.totalTxSize = 0]

(* CTxMemPool::clear *)
clear(st) ==
    [st EXCEPT !.mapTx = << >>, !.mapNextTx = << >>, !.totalTxSize = 0,
               !.nTransactionsUpdated = @ + 1]


(* CTxMemPool::removeConflicts: for each input of tx in order, the entry   *)
(* the index names for that outpoint is removed recursively unless it is   *)
(* tx itself                                                               *)
RECURSIVE ConflictLoop(_, _, _)
ConflictLoop(st, t, i) ==
    IF i > Len(TxVin[t]) THEN st
    ELSE LET o == TxVin[t][i]
         IN  IF o \in DOMAIN st.mapNextTx /\ st.mapNextTx[o].ptx # t
             THEN ConflictLoop(remove(st, st.mapNextTx[o].ptx, TRUE), t, i + 1)
             ELSE ConflictLoop(st, t, i + 1)

removeConflictsFirstInputOnly(st, t) ==
    LET o == TxVin[t][1]
    IN  IF o \in DOMAIN st.mapNextTx /\ st.mapNextTx[o].ptx # t
        THEN remove(st, st.mapNextTx[o].ptx, TRUE)
        ELSE st

removeConflicts(st, t) == ConflictLoop(st, t, 1)

(* CTxMemPool::PrioritiseTransaction *)
PrioritiseTransaction(st, hash, dPriorityDelta, nFeeDelta) ==
    LET old == IF hash \in DOMAIN st.mapDeltas THEN st.mapDeltas[hash] ELSE << 0, 0 >>
    IN  [st EXCEPT !.mapDeltas =
            [h \in DOMAIN st.mapDeltas \cup {hash} |->
                IF h = hash THEN << old[1] + dPriorityDelta, old[2] + nFeeDelta >>
                ELSE st.mapDeltas[h]]]

(* CTxMemPool::ClearPrioritisation *)
ClearPrioritisation(st, hash) == [st EXCEPT !.mapDeltas = Drop(@, {hash})]

(* the entries removeForBlock captures before it removes anything *)
CapturedEntries(st, vtx) ==
    LET here == SelectSeq(vtx, LAMBDA t : t \in DOMAIN st.mapTx)
    IN  [k \in 1 .. Len(here) |-> st.mapTx[here[k]]]

RECURSIVE BlockLoopNoConflicts(_, _, _)
BlockLoopNoConflicts(st, vtx, i) ==
    IF i > Len(vtx) THEN st
    ELSE LET tx == vtx[i]
             st1 == [remove(st, tx, FALSE) EXCEPT !.removed = st.removed]
         IN  BlockLoopNoConflicts(ClearPrioritisation(st1, tx), vtx, i + 1)

(* the second loop of removeForBlock: remove, removeConflicts,             *)
(* ClearPrioritisation for each transaction of the block; the conflicts    *)
(* list gathers what removeConflicts removed, remove's list is a dummy     *)
RECURSIVE BlockLoop(_, _, _)
BlockLoop(st, vtx, i) ==
    IF i > Len(vtx) THEN st
    ELSE LET tx == vtx[i]
             st1 == [remove(st, tx, FALSE) EXCEPT !.removed = st.removed]
             st2 == removeConflicts(st1, tx)
         IN  BlockLoop(ClearPrioritisation(st2, tx), vtx, i + 1)

(* CTxMemPool::removeForBlock *)
removeForBlock(st, vtx, fCurrentEstimate) ==
    processBlock(BlockLoop(st, vtx, 1), CapturedEntries(st, vtx), fCurrentEstimate)

(* The confirmed coins a caller hands to removeCoinbaseSpends: per source  *)
(* transaction hash either NoCoins (AccessCoins returns NULL) or its       *)
(* coinbase/coinstake flag and height.                                     *)
NoCoins == [null |-> TRUE, fCoinBase |-> FALSE, nHeight |-> 0]

Coins(cb, h) == [null |-> FALSE, fCoinBase |-> cb, nHeight |-> h]

(* Params().COINBASE_MATURITY(), scaled down *)
COINBASE_MATURITY == 2

(* the test of one input in removeCoinbaseSpends; the unsigned difference  *)
(* cast to int is the signed difference of the two heights                 *)
Immature(coins, nMemPoolHeight) ==
    coins.null \/ (coins.fCoinBase /\ nMemPoolHeight - coins.nHeight < COINBASE_MATURITY)

(* the first input of t, in order, whose source is not resident; the scan  *)
(* of an entry stops (break) at the first input that makes it removable    *)
RECURSIVE ScanInputs(_, _, _, _, _)
ScanInputs(st, pcoins, nMemPoolHeight, t, i) ==
    IF i > Len(TxVin[t]) THEN [hit |-> FALSE, abort |-> FALSE]
    ELSE LET src == TxVin[t][i].hash
         IN  IF src \in DOMAIN st.mapTx
             THEN ScanInputs(st, pcoins, nMemPoolHeight, t, i + 1)
             ELSE IF fSanityCheck /\ pcoins[src].null
                  THEN [hit |-> FALSE, abort |-> TRUE]
                  ELSE IF Immature(pcoins[src], nMemPoolHeight)
                       THEN [hit |-> TRUE, abort |-> FALSE]
                       ELSE ScanInputs(st, pcoins, nMemPoolHeight, t, i + 1)

RECURSIVE RemoveAll(_, _)
RemoveAll(st, txs) ==
    IF txs = << >> THEN st
    ELSE RemoveAll([remove(st, Head(txs), TRUE) EXCEPT !.removed = << >>], Tail(txs))

(* CTxMemPool::removeCoinbaseSpends: the scan gathers transactionsToRemove *)
(* in map order without changing the pool (assert(coins) aborts it when    *)
(* sanity checking is on), then each is removed recursively with a list of *)
(* its own                                                                 *)
removeCoinbaseSpends(st, pcoins, nMemPoolHeight) ==
    LET order == Ascending(DOMAIN st.mapTx)
        Scan(h) == ScanInputs(st, pcoins, nMemPoolHeight, st.mapTx[h].tx, 1)
        transactionsToRemove == SelectSeq(order, LAMBDA h : Scan(h).hit)
    IN  IF \E h \in DOMAIN st.mapTx : Scan(h).abort
        THEN [st EXCEPT !.asserted = TRUE]
        ELSE RemoveAll(st, transactionsToRemove)

-----------------------------------------------------------------------------
Op(name, t, flag, vtx) == [op |-> name, tx |-> t, flag |-> flag, vtx |-> vtx]

(* an input of t is claimed by another resident entry *)
ConflictsWithPool(t) ==
    \E h \in DOMAIN mapTx \ {t} :
        Range(TxVin[mapTx[h].tx]) \cap Range(TxVin[t]) # {}

Commit(st, op) ==
    /\ mapTx' = st.mapTx
    /\ mapNextTx' = st.mapNextTx
    /\ totalTxSize' = st.totalTxSize
    /\ nTransactionsUpdated' = st.nTransactionsUpdated
    /\ mapDeltas' = st.mapDeltas
    /\ pending' = st.pending
    /\ samples' = st.samples
    /\ asserted' = st.asserted
    /\ removed' = st.removed
    /\ lastOp' = op

(* the threads that admit transactions *)
Callers == {"a", "b"}

\* no removeForBlock call is in progress
NoBlockCall == [pc |-> "idle", vtx |-> << >>, i |-> 0, entries |-> << >>]

\* no check call is in progress
NoAudit == [pc |-> "idle", transactions |-> 0, inputs |-> 0]

\* no lookup was made
NotFound == [ok |-> FALSE, result |-> 0]

\* no caller has read the counter
NotSeen == [taken |-> FALSE, nTransactionsUpdated |-> 0, vtxid |-> {}]

\* check has not been called
NoCheck ==
    [pc |-> "idle", order |-> << >>, pcoins |-> {}, mempoolDuplicate |-> {},
     waitingOnDependants |-> << >>, stepsSinceLastRemove |-> 0, fired |-> "none"]

IdleWatch == seen = NotSeen /\ checkCall = NoCheck

InitPool ==
    /\ mapTx = << >>
    /\ mapNextTx = << >>
    /\ totalTxSize \in {0, Indeterminate}
    /\ nTransactionsUpdated = 0
    /\ mapDeltas = << >>
    /\ pending = {}
    /\ samples = {}
    /\ fSanityCheck = FALSE
    /\ asserted = FALSE
    /\ removed = << >>
    /\ lastOp = Op("init", 0, FALSE, << >>)
    /\ callers = [c \in Callers |-> [pc |-> "idle", tx |-> 0]]
    /\ raced = FALSE
    /\ contractHeld = TRUE
    /\ cs = "none"
    /\ blockCall = NoBlockCall
    /\ audit = NoAudit
    /\ lookedUp = NotFound
    /\ IdleWatch

(* The constructor sets none of the rolling-fee fields and no code of the  *)
(* file assigns them outside GetMinFee: where GetMinFee is not called they *)
(* are never read, and are held at zero.                                   *)
IdleFee ==
    /\ minRelayFee = 8
    /\ rollingMinimumFeeRate = 0
    /\ lastRollingFeeUpdate = 0
    /\ now = 0
    /\ feeReturns = << >>

\* no second CBlockAverage
NoAverage ==
    [done |-> FALSE, feeSamples |-> << >>, prioritySamples |-> << >>,
     thrown |-> FALSE]

(* CBlockAverage::CBlockAverage: two empty rings; no file, no read yet *)
IdleAvg ==
    /\ feeSamples = << >>
    /\ prioritySamples = << >>
    /\ stream = << >>
    /\ readResult = "none"
    /\ readInvoked = FALSE
    /\ restored = NoAverage

(* CTxMemPoolEntry::CTxMemPoolEntry(): no fee, no size, no priority; no    *)
(* priority asked for yet                                                  *)
IdleEntry ==
    /\ theEntry = [dPriority |-> 0, nFee |-> 0, nValueOut |-> 0, nModSize |-> 0,
                   nHeight |-> 0]
    /\ dResult = [asked |-> FALSE, currentHeight |-> 0, dPriority |-> 0,
                  numerator |-> 0, nModSize |-> 0]

\* the CCoins a caller passes to GetCoins, before the call
EmptyCoins == [tx |-> 0, nHeight |-> 0, pruned |-> TRUE]

(* CCoinsViewMemPool::CCoinsViewMemPool over a view that holds nothing *)
IdleView ==
    /\ base = << >>
    /\ coinsResult = [calls |-> 0, txid |-> 0, ok |-> FALSE, coins |-> EmptyCoins]

IdleExt == IdleAvg /\ IdleEntry /\ IdleView

Init ==
    /\ InitPool
    /\ IdleFee
    /\ IdleExt

Running == ~asserted /\ nTransactionsUpdated < MaxUpdated

AddUnchecked(t, fCurrentEstimate) ==
    /\ Running
    /\ Commit(addUnchecked(PoolState, t, CTxMemPoolEntry(PoolState, t), fCurrentEstimate),
              Op("addUnchecked", t, fCurrentEstimate, << >>))
    /\ contractHeld' = (contractHeld /\ ~ConflictsWithPool(t))
    /\ UNCHANGED <<fSanityCheck, callers, raced, feeVars, extVars>>

Remove(t, fRecursive) ==
    /\ Running
    /\ Commit(remove(FreshList, t, fRecursive), Op("remove", t, fRecursive, << >>))
    /\ UNCHANGED <<contractHeld, fSanityCheck, callers, raced, feeVars, extVars>>

RemoveConflicts(t) ==
    /\ Running
    /\ Commit(removeConflicts(FreshList, t), Op("removeConflicts", t, FALSE, << >>))
    /\ UNCHANGED <<contractHeld, fSanityCheck, callers, raced, feeVars, extVars>>

RemoveForBlock(vtx, fCurrentEstimate) ==
    /\ Running
    /\ Commit(removeForBlock(FreshList, vtx, fCurrentEstimate),
              Op("removeForBlock", 0, fCurrentEstimate, vtx))
    /\ UNCHANGED <<contractHeld, fSanityCheck, callers, raced, feeVars, extVars>>

RemoveCoinbaseSpends(pcoins, nMemPoolHeight) ==
    /\ Running
    /\ Commit(removeCoinbaseSpends(FreshList, pcoins, nMemPoolHeight),
              Op("removeCoinbaseSpends", 0, FALSE, << >>))
    /\ UNCHANGED <<contractHeld, fSanityCheck, callers, raced, feeVars, extVars>>

Clear ==
    /\ Running
    /\ Commit(clear(PoolState), Op("clear", 0, FALSE, << >>))
    /\ UNCHANGED <<contractHeld, fSanityCheck, callers, raced, feeVars, extVars>>

(* CTxMemPool::setSanityCheck, the setter of the class declaration that   *)
(* the -checkmempool option drives                                         *)
SetSanityCheck(_fSanityCheck) ==
    /\ Running
    /\ fSanityCheck # _fSanityCheck
    /\ fSanityCheck' = _fSanityCheck
    /\ lastOp' = Op("setSanityCheck", 0, _fSanityCheck, << >>)
    /\ UNCHANGED <<mapTx, mapNextTx, totalTxSize, nTransactionsUpdated, mapDeltas,
                   pending, samples, asserted, removed, contractHeld, callers,
                   raced, feeVars, extVars>>

\* the cap on an accumulated priority delta under which calls are explored
MaxDelta == 2

Prioritise(hash, dPriorityDelta, nFeeDelta) ==
    /\ Running
    /\ hash \in DOMAIN mapDeltas => mapDeltas[hash][1] + dPriorityDelta <= MaxDelta
    /\ Commit(PrioritiseTransaction(PoolState, hash, dPriorityDelta, nFeeDelta),
              Op("PrioritiseTransaction", hash, FALSE, << >>))
    /\ UNCHANGED <<contractHeld, fSanityCheck, callers, raced, feeVars, extVars>>

ClearPrio(hash) ==
    /\ Running
    /\ Commit(ClearPrioritisation(PoolState, hash),
              Op("ClearPrioritisation", hash, FALSE, << >>))
    /\ UNCHANGED <<contractHeld, fSanityCheck, callers, raced, feeVars, extVars>>

(* the blocks connected: one or two distinct transactions *)
Blocks ==
    { << t >> : t \in Tx } \cup
    { p \in { << t, u >> : t \in Tx, u \in Tx } : p[1] # p[2] }

(* the confirmed-coin views: 11 is absent, a coinbase or a plain           *)
(* transaction at height 1; 12 is a plain transaction or a coinbase at     *)
(* height 1; 1 and 2 are either unknown to the chain or confirmed          *)
CoinViews ==
    { [h \in {1, 2, 11, 12} |->
          CASE h = 11 -> c11 [] h = 12 -> c12 [] OTHER -> c1]
      : c11 \in {NoCoins, Coins(TRUE, 1), Coins(FALSE, 1)},
        c12 \in {Coins(FALSE, 1), Coins(TRUE, 1)},
        c1 \in {NoCoins, Coins(FALSE, 2)} }

Heights == {2, 3}

Next ==
    \/ \E t \in Tx : AddUnchecked(t, FALSE)
    \/ \E t \in Tx, f \in BOOLEAN : Remove(t, f)
    \/ \E t \in Tx : RemoveConflicts(t)
    \/ \E vtx \in Blocks : RemoveForBlock(vtx, FALSE)
    \/ \E pcoins \in CoinViews, h \in Heights : RemoveCoinbaseSpends(pcoins, h)
    \/ Clear

Spec == Init /\ [][Next]_vars


(* The pool with prioritisation: the calls of Spec on three of the         *)
(* transactions, and PrioritiseTransaction / ClearPrioritisation.          *)
PrioTx == {1, 2, 4}

PrioBlocks == { << 1 >>, << 4 >>, << 2, 1 >> }

PrioViews == { v \in CoinViews : v[12] = Coins(FALSE, 1) /\ v[1] = NoCoins }

NextPrio ==
    \/ \E t \in PrioTx : AddUnchecked(t, FALSE)
    \/ \E t \in PrioTx, f \in BOOLEAN : Remove(t, f)
    \/ \E t \in PrioTx : RemoveConflicts(t)
    \/ \E vtx \in PrioBlocks : RemoveForBlock(vtx, FALSE)
    \/ \E pcoins \in PrioViews, h \in Heights : RemoveCoinbaseSpends(pcoins, h)
    \/ Clear
    \/ \E h \in {1, 4} : Prioritise(h, 1, 2)
    \/ \E h \in {1, 4} : ClearPrio(h)

SpecPrio == Init /\ [][NextPrio]_vars

(* The pool with the estimator fed: admissions with either value of        *)
(* fCurrentEstimate, removals and connected blocks.                        *)
NextEst ==
    \/ \E t \in PrioTx, f \in BOOLEAN : AddUnchecked(t, f)
    \/ \E t \in PrioTx, f \in BOOLEAN : Remove(t, f)
    \/ \E vtx \in PrioBlocks, f \in BOOLEAN : RemoveForBlock(vtx, f)

SpecEst == Init /\ [][NextEst]_vars

(* A thread that admits t the way the conflict-eviction path does: it      *)
(* calls removeConflicts(t) and then addUnchecked(hash(t), entry), each    *)
(* call taking and releasing the pool lock cs on its own.                  *)
OtherMidway(c) == \E d \in Callers \ {c} : callers[d].pc = "evicted"

CallerRemoveConflicts(c, t) ==
    /\ Running
    /\ callers[c].pc = "idle"
    /\ Commit(removeConflicts(FreshList, t), Op("removeConflicts", t, FALSE, << >>))
    /\ callers' = [callers EXCEPT ![c] = [pc |-> "evicted", tx |-> t]]
    /\ raced' = (raced \/ OtherMidway(c))
    /\ UNCHANGED <<contractHeld, fSanityCheck, feeVars, extVars>>

CallerAddUnchecked(c) ==
    /\ Running
    /\ callers[c].pc = "evicted"
    /\ Commit(addUnchecked(PoolState, callers[c].tx,
                           CTxMemPoolEntry(PoolState, callers[c].tx), FALSE),
              Op("addUnchecked", callers[c].tx, FALSE, << >>))
    /\ callers' = [callers EXCEPT ![c].pc = "idle"]
    /\ raced' = (raced \/ OtherMidway(c))
    /\ contractHeld' = (contractHeld /\ ~ConflictsWithPool(callers[c].tx))
    /\ UNCHANGED <<fSanityCheck, feeVars, extVars>>

NextCallers ==
    \/ \E c \in Callers, t \in Tx : CallerRemoveConflicts(c, t)
    \/ \E c \in Callers : CallerAddUnchecked(c)

SpecCallers == Init /\ [][NextCallers]_vars

(* The pool with sanity checking switched on and off between admissions    *)
(* and the calls made after a reorganisation.                              *)
NextSanity ==
    \/ \E f \in BOOLEAN : SetSanityCheck(f)
    \/ \E t \in Tx : AddUnchecked(t, FALSE)
    \/ \E pcoins \in CoinViews, h \in Heights : RemoveCoinbaseSpends(pcoins, h)

SpecSanity == Init /\ [][NextSanity]_vars


-----------------------------------------------------------------------------
(* The rolling minimum fee.  rollingMinimumFeeRate is a double: it is kept *)
(* here in units of 1/FeeScale, rounded down.                              *)
FeeScale == 100

(* ROLLING_FEE_HALFLIFE, in seconds, scaled down *)
ROLLING_FEE_HALFLIFE == 40

(* memusage: the bytes charged per mapTx entry and per map node *)
EntryUsage == 4

NodeUsage == 1

(* CTxMemPool::DynamicMemoryUsage *)
DynamicMemoryUsage ==
    EntryUsage * Cardinality(DOMAIN mapTx)
        + NodeUsage * Cardinality(DOMAIN mapNextTx)
        + NodeUsage * Cardinality(DOMAIN mapDeltas)

RECURSIVE Pow2(_)
Pow2(k) == IF k = 0 THEN 1 ELSE 2 * Pow2(k - 1)

(* the halflife GetMinFee picks for a size limit *)
Halflife(sizelimit) ==
    IF DynamicMemoryUsage < sizelimit \div 4 THEN ROLLING_FEE_HALFLIFE \div 4
    ELSE IF DynamicMemoryUsage < sizelimit \div 2 THEN ROLLING_FEE_HALFLIFE \div 2
    ELSE ROLLING_FEE_HALFLIFE

(* rate / pow(2.0, dt / halflife): 2^x is taken exactly at whole x and on  *)
(* the chord between whole exponents elsewhere, the quotient rounded down  *)
DecayGrows(rate, dt, halflife) ==
    (rate * Pow2(dt \div halflife) * (halflife + (dt % halflife))) \div halflife

Decay(rate, dt, halflife) ==
    (rate * halflife) \div (Pow2(dt \div halflife) * (halflife + (dt % halflife)))

(* minRelayFee.GetFeePerK() / 2, a division of integers, in 1/FeeScale *)
HalfRelayFee == (minRelayFee \div 2) * FeeScale

(* CFeeRate(rollingMinimumFeeRate): the double converted to CAmount *)
CFeeRate(rate) == rate \div FeeScale

MaxPicksFirst(a, b) == a

Max(a, b) == IF a >= b THEN a ELSE b

\* the cap on the clock and on the number of GetMinFee calls explored
MaxNow == 44

MaxCalls == 3

(* CTxMemPool::GetMinFee *)
GetMinFee(sizelimit) ==
    /\ ~asserted
    /\ Len(feeReturns) < MaxCalls
    /\ IF rollingMinimumFeeRate = 0
       THEN /\ feeReturns' = Append(feeReturns, CFeeRate(rollingMinimumFeeRate))
            /\ UNCHANGED <<rollingMinimumFeeRate, lastRollingFeeUpdate>>
       ELSE IF now > lastRollingFeeUpdate + 10
       THEN LET decayed == Decay(rollingMinimumFeeRate, now - lastRollingFeeUpdate,
                                 Halflife(sizelimit))
            IN  /\ lastRollingFeeUpdate' = now
                /\ IF decayed < HalfRelayFee
                   THEN /\ rollingMinimumFeeRate' = 0
                        /\ feeReturns' = Append(feeReturns, 0)
                   ELSE /\ rollingMinimumFeeRate' = decayed
                        /\ feeReturns' = Append(feeReturns, Max(CFeeRate(decayed), minRelayFee))
       ELSE /\ feeReturns' = Append(feeReturns, Max(CFeeRate(rollingMinimumFeeRate), minRelayFee))
            /\ UNCHANGED <<rollingMinimumFeeRate, lastRollingFeeUpdate>>
    /\ UNCHANGED <<poolVars, extVars, minRelayFee, now>>

(* GetTime() moves on *)
Tick(d) ==
    /\ now + d <= MaxNow
    /\ now' = now + d
    /\ UNCHANGED <<poolVars, extVars, minRelayFee, rollingMinimumFeeRate,
                   lastRollingFeeUpdate, feeReturns>>

(* GetMinFee as a function of the fields it reads: the baseline, the       *)
(* stored rate and the time of its last update are drawn from small sets.  *)
InitFee ==
    /\ InitPool
    /\ minRelayFee \in {5, 8}
    /\ rollingMinimumFeeRate \in { r * FeeScale : r \in {0, 3, 12, 40} }
    /\ lastRollingFeeUpdate \in {0, 20}
    /\ now = 0
    /\ feeReturns = << >>
    /\ IdleExt

NextFee ==
    \/ \E sizelimit \in {0, 2, 8} : GetMinFee(sizelimit)
    \/ \E d \in {4, 11, 40} : Tick(d)

SpecFee == InitFee /\ [][NextFee]_vars

-----------------------------------------------------------------------------
(* The sample rings of CBlockAverage and the estimates file.  The file is  *)
(* the sequence of the values serialised into it: a vector is its length   *)
(* followed by its elements.                                               *)

(* the capacity of boost::circular_buffer in CBlockAverage(), scaled down *)
RingCapacity == 2

(* AreSane: the fee ceiling is this multiple of minRelayFee *)
SaneFeeMultiple == 10000

(* the version WriteFeeEstimates declares as required to read the file *)
VersionRequiredWritten == 120000

(* CLIENT_VERSION *)
CLIENT_VERSION == 5030000

(* the last n elements of s *)
LastN(s, n) == IF Len(s) <= n THEN s ELSE SubSeq(s, Len(s) - n + 1, Len(s))

(* circular_buffer::push_back: a full ring drops its oldest element *)
PushBackGrows(buf, x) == Append(buf, x)

push_back(buf, x) == LastN(Append(buf, x), RingCapacity)

(* circular_buffer::insert(end(), first, last) *)
insert(buf, vec) == LastN(buf \o vec, RingCapacity)

\* the call was no read
NoRead ==
    /\ readResult' = "none"
    /\ readInvoked' = FALSE
    /\ restored' = NoAverage

(* CBlockAverage::RecordFee, RecordPriority *)
RecordFee(fee) ==
    /\ feeSamples' = push_back(feeSamples, fee)
    /\ NoRead
    /\ UNCHANGED <<outsideAvg, prioritySamples, stream>>

RecordPriority(priority) ==
    /\ prioritySamples' = push_back(prioritySamples, priority)
    /\ NoRead
    /\ UNCHANGED <<outsideAvg, feeSamples, stream>>

(* AreSane(fee, minRelayFee), AreSane(vecFee, minRelayFee) *)
AreSaneFee(fee) == ~(fee < 0) /\ ~(fee > minRelayFee * SaneFeeMultiple)

AreSaneFees(vecFee) == \A i \in 1 .. Len(vecFee) : AreSaneFee(vecFee[i])

(* AreSane(priority), AreSane(vecPriority) *)
AreSanePriority(priority) == priority >= 0

AreSanePriorities(vecPriority) ==
    \A i \in 1 .. Len(vecPriority) : AreSanePriority(vecPriority[i])

(* fileout << vec *)
Serialize(vec) == << Len(vec) >> \o vec

(* filein >> vec: fails (an exception of the stream) on a file that ends   *)
(* before the vector does                                                  *)
Unserialize(filein) ==
    IF filein = << >> \/ filein[1] < 0 \/ Len(filein) < 1 + filein[1]
    THEN [ok |-> FALSE, vec |-> << >>, rest |-> << >>]
    ELSE [ok |-> TRUE,
          vec |-> SubSeq(filein, 2, 1 + filein[1]),
          rest |-> SubSeq(filein, 2 + filein[1], Len(filein))]

(* CBlockAverage::Write *)
Write(fees, priorities) == Serialize(fees) \o Serialize(priorities)

(* CBlockAverage::Read, on rings fees and priorities: the rings it leaves  *)
(* and whether it threw                                                    *)
Read(fees, priorities, filein) ==
    LET f == Unserialize(filein)
    IN  IF ~f.ok \/ ~AreSaneFees(f.vec)
        THEN [feeSamples |-> fees, prioritySamples |-> priorities, thrown |-> TRUE]
        ELSE LET inserted == insert(fees, f.vec)
                 q == Unserialize(f.rest)
             IN  IF ~q.ok \/ ~AreSanePriorities(q.vec)
                 THEN [feeSamples |-> inserted, prioritySamples |-> priorities,
                       thrown |-> TRUE]
                 ELSE [feeSamples |-> inserted,
                       prioritySamples |-> insert(priorities, q.vec),
                       thrown |-> FALSE]

(* CTxMemPool::WriteFeeEstimates, the estimator holding one CBlockAverage *)
WriteFeeEstimates ==
    /\ stream' = << VersionRequiredWritten, CLIENT_VERSION >>
                    \o Write(feeSamples, prioritySamples)
    /\ NoRead
    /\ UNCHANGED <<outsideAvg, feeSamples, prioritySamples>>

(* the version check of ReadFeeEstimates *)
UpVersionInclusive(nVersionRequired) == nVersionRequired >= CLIENT_VERSION

UpVersion(nVersionRequired) == nVersionRequired > CLIENT_VERSION

(* CTxMemPool::ReadFeeEstimates, the estimator holding one CBlockAverage *)
ReadFeeEstimates ==
    /\ IF Len(stream) < 2
       THEN /\ readResult' = "false"
            /\ readInvoked' = FALSE
            /\ UNCHANGED <<feeSamples, prioritySamples>>
       ELSE IF UpVersion(stream[1])
       THEN /\ readResult' = "false"
            /\ readInvoked' = FALSE
            /\ UNCHANGED <<feeSamples, prioritySamples>>
       ELSE LET r == Read(feeSamples, prioritySamples, SubSeq(stream, 3, Len(stream)))
            IN  /\ feeSamples' = r.feeSamples
                /\ prioritySamples' = r.prioritySamples
                /\ readInvoked' = TRUE
                /\ readResult' = IF r.thrown THEN "false" ELSE "true"
    /\ restored' = NoAverage
    /\ UNCHANGED <<outsideAvg, stream>>

(* CBlockAverage::Write of the rings into a file, then CBlockAverage() and *)
(* Read of that file                                                       *)
WriteThenRead ==
    /\ LET r == Read(<< >>, << >>, Write(feeSamples, prioritySamples))
       IN  restored' = [done |-> TRUE, feeSamples |-> r.feeSamples,
                        prioritySamples |-> r.prioritySamples, thrown |-> r.thrown]
    /\ readResult' = "none"
    /\ readInvoked' = FALSE
    /\ UNCHANGED <<outsideAvg, feeSamples, prioritySamples, stream>>

(* an estimates file found on disk *)
OpenFile(file) ==
    /\ stream' = file
    /\ NoRead
    /\ UNCHANGED <<outsideAvg, feeSamples, prioritySamples>>

\* the samples recorded and the files found
FeeValues == {0 - 1, 5, 80000}

PriorityValues == {0 - 1, 7}

Files ==
    { << VersionRequiredWritten, CLIENT_VERSION >> \o body :
        body \in { Write(<< 5, 80000 >>, << 7 >>),
                   Write(<< 5, 80001 >>, << 7 >>),
                   Write(<< 5 >>, << 0 - 1 >>),
                   << 1, 5, 2, 7 >> } }
        \cup { << CLIENT_VERSION, CLIENT_VERSION >> \o Write(<< 0 >>, << 0 >>),
               << CLIENT_VERSION + 1, CLIENT_VERSION >> \o Write(<< 5 >>, << 7 >>),
               << VersionRequiredWritten >> }

InitAvg ==
    /\ InitPool
    /\ IdleFee
    /\ IdleAvg
    /\ IdleEntry
    /\ IdleView

(* recording samples, writing them out and reading them back *)
NextAvg ==
    \/ \E fee \in FeeValues : RecordFee(fee)
    \/ \E priority \in PriorityValues : RecordPriority(priority)
    \/ WriteThenRead

SpecAvg == InitAvg /\ [][NextAvg]_vars

(* recording samples, saving the estimates and loading estimates files *)
NextLoad ==
    \/ \E fee \in FeeValues : RecordFee(fee)
    \/ \E priority \in PriorityValues : RecordPriority(priority)
    \/ WriteFeeEstimates
    \/ ReadFeeEstimates
    \/ \E file \in Files : OpenFile(file)

SpecLoad == InitAvg /\ [][NextLoad]_vars

-----------------------------------------------------------------------------
(* The priority of an entry.  Heights are unsigned int; its 32 bits are    *)
(* scaled down to 16.                                                      *)
UIntModulus == 65536

(* unsigned subtraction *)
UnsignedMinus(a, b) == (a - b) % UIntModulus

(* CTxMemPoolEntry::GetPriority: dPriority + numerator / nModSize, the     *)
(* division being one of doubles, kept as its two operands                 *)
GetPriority(currentHeight) ==
    /\ LET nValueIn == theEntry.nValueOut + theEntry.nFee
       IN  dResult' = [asked |-> TRUE,
                       currentHeight |-> currentHeight,
                       dPriority |-> theEntry.dPriority,
                       numerator |-> UnsignedMinus(currentHeight, theEntry.nHeight) * nValueIn,
                       nModSize |-> theEntry.nModSize]
    /\ UNCHANGED <<outsideEntry, theEntry>>

\* the heights of the chain and the entries priorities are asked for
ChainHeights == {0, 99, 100, 110, 210}

Entries ==
    [dPriority : {0, 50}, nFee : {0, 1000}, nValueOut : {0, 9000},
     nModSize : {1, 250}, nHeight : {0, 100, 200}]

(* CTxMemPoolEntry::CTxMemPoolEntry(tx, nFee, nTime, dPriority, nHeight, ...) *)
InitEntry ==
    /\ InitPool
    /\ IdleFee
    /\ IdleAvg
    /\ theEntry \in Entries
    /\ dResult = [asked |-> FALSE, currentHeight |-> 0, dPriority |-> 0,
                  numerator |-> 0, nModSize |-> 0]
    /\ IdleView

NextEntry == \E currentHeight \in ChainHeights : GetPriority(currentHeight)

SpecEntry == InitEntry /\ [][NextEntry]_vars

-----------------------------------------------------------------------------
(* The coins view laid over the pool.  The view underneath holds, for a    *)
(* transaction, no record, a record with unspent outputs or a record all   *)
(* of whose outputs are spent (pruned).                                    *)

(* MEMPOOL_HEIGHT *)
MEMPOOL_HEIGHT == 2147483647

\* the height of the confirmed records
ConfirmedHeight == 1

(* CCoinsViewBacked::GetCoins: found or not, and the record found *)
BaseGetCoins(txid, coins) ==
    IF txid \notin DOMAIN base \/ base[txid] = "absent"
    THEN [ok |-> FALSE, coins |-> coins]
    ELSE [ok |-> TRUE,
          coins |-> [tx |-> txid, nHeight |-> ConfirmedHeight,
                     pruned |-> (base[txid] = "pruned")]]

(* CTxMemPool::lookup *)
lookup(hash) ==
    IF hash \in DOMAIN mapTx
    THEN [ok |-> TRUE, result |-> mapTx[hash].tx]
    ELSE [ok |-> FALSE, result |-> 0]

(* CCoinsViewMemPool::GetCoins *)
GetCoinsBaseFirst(txid, coins) ==
    LET b == BaseGetCoins(txid, coins)
    IN  IF b.ok THEN [ok |-> ~b.coins.pruned, coins |-> b.coins]
        ELSE IF lookup(txid).ok
        THEN [ok |-> TRUE,
              coins |-> [tx |-> lookup(txid).result, nHeight |-> MEMPOOL_HEIGHT,
                         pruned |-> FALSE]]
        ELSE [ok |-> FALSE, coins |-> coins]

GetCoins(txid, coins) ==
    IF lookup(txid).ok
    THEN [ok |-> TRUE,
          coins |-> [tx |-> lookup(txid).result, nHeight |-> MEMPOOL_HEIGHT,
                     pruned |-> FALSE]]
    ELSE LET b == BaseGetCoins(txid, coins)
         IN  [ok |-> b.ok /\ ~b.coins.pruned, coins |-> b.coins]

\* the number of GetCoins calls explored
MaxLookups == 2

CallGetCoins(txid) ==
    /\ coinsResult.calls < MaxLookups
    /\ LET r == GetCoins(txid, EmptyCoins)
       IN  coinsResult' = [calls |-> coinsResult.calls + 1, txid |-> txid,
                           ok |-> r.ok, coins |-> r.coins]
    /\ UNCHANGED <<outsideView, base>>

\* the transactions looked up: two the pool may hold, one it never holds
ViewTxids == {1, 2, 11}

InitView ==
    /\ InitPool
    /\ IdleFee
    /\ IdleAvg
    /\ IdleEntry
    /\ base \in [ViewTxids -> {"absent", "unspent", "pruned"}]
    /\ coinsResult = [calls |-> 0, txid |-> 0, ok |-> FALSE, coins |-> EmptyCoins]

NextView ==
    \/ \E t \in {1, 2} : AddUnchecked(t, FALSE)
    \/ \E t \in {1, 2}, fRecursive \in BOOLEAN : Remove(t, fRecursive)
    \/ \E txid \in ViewTxids : CallGetCoins(txid)

SpecView == InitView /\ [][NextView]_vars

-----------------------------------------------------------------------------
\* the sum of f[x] over x in S
RECURSIVE SumOver(_, _)
SumOver(S, f) ==
    IF S = {} THEN 0
    ELSE LET x == CHOOSE y \in S : TRUE IN f[x] + SumOver(S \ {x}, f)

InputCount == [h \in DOMAIN mapTx |-> Len(TxVin[mapTx[h].tx])]

EntrySize == [h \in DOMAIN mapTx |-> mapTx[h].nTxSize]

IndexSizeEqualsInputCount ==
    Cardinality(DOMAIN mapNextTx) = SumOver(DOMAIN mapTx, InputCount)

(* C2, as claimed: after any sequence of addUnchecked and remove calls the *)
(* number of records of mapNextTx equals the sum of the input counts of    *)
(* the resident entries.                                                   *)
C2_IndexSizeAlways == IndexSizeEqualsInputCount

(* C2, amended: the equality holds as long as no addUnchecked admitted a   *)
(* transaction one of whose inputs another resident entry already claimed. *)
C2_IndexSizeUnderContract == contractHeld => IndexSizeEqualsInputCount

C2_Witness ==
    /\ contractHeld
    /\ lastOp = Op("remove", 1, FALSE, << >>)
    /\ removed = << 1 >>
    /\ DOMAIN mapTx = {2, 3}
    /\ Cardinality(DOMAIN mapNextTx) = 2

(* the equality check() asserts last *)
TotalSizeIsSum == totalTxSize = SumOver(DOMAIN mapTx, EntrySize)

(* C3: the running total totalTxSize equals the sum of GetTxSize() over    *)
(* the resident entries after any sequence of pool calls: no pool call     *)
(* takes a pool where the two are equal to one where they differ.          *)
C3_TotalSizeIsSum == [][TotalSizeIsSum => TotalSizeIsSum']_vars

(* the transactions of a block and the resident entries share no outpoint, *)
(* and no transaction of the block is resident                             *)
BlockGone(vtx) ==
    \A t \in Range(vtx) :
        /\ t \notin DOMAIN mapTx
        /\ \A h \in DOMAIN mapTx :
              Range(TxVin[mapTx[h].tx]) \cap Range(TxVin[t]) = {}

(* C4, as claimed: after any removeForBlock(vtx, ...) no transaction of    *)
(* vtx is resident and no resident entry spends an outpoint that a         *)
(* transaction of vtx spends.                                              *)
C4_BlockGoneAlways ==
    lastOp.op = "removeForBlock" => BlockGone(lastOp.vtx)

(* C4, amended: the same, for a pool none of whose admissions claimed an   *)
(* outpoint another resident entry already claimed.                        *)
C4_BlockGoneUnderContract ==
    (contractHeld /\ lastOp.op = "removeForBlock") => BlockGone(lastOp.vtx)

C4_Witness ==
    /\ contractHeld
    /\ lastOp.op = "removeForBlock"
    /\ lastOp.vtx = << 4 >>
    /\ removed = << 1, 2, 3 >>
    /\ DOMAIN mapTx = {}

(* the resident transactions that spend an output of a transaction of D *)
SpendersOf(D) ==
    { h \in DOMAIN mapTx :
        \E i \in 1 .. Len(TxVin[mapTx[h].tx]) : TxVin[mapTx[h].tx][i].hash \in D }

(* t and every resident transaction that spends an output of t directly   *)
(* or transitively                                                         *)
RECURSIVE Closure(_)
Closure(D) ==
    IF SpendersOf(D) \subseteq D THEN D ELSE Closure(D \cup SpendersOf(D))

Descendants(t) == Closure({t})

RemovesExactlyDescendants(t) ==
    /\ DOMAIN mapTx' = DOMAIN mapTx \ Descendants(t)
    /\ Range(removed') = Descendants(t)
    /\ Len(removed') = Cardinality(Descendants(t))

(* C5, as claimed: remove(tx, removed, true) on a resident tx removes tx   *)
(* and every resident transaction that spends an output of tx directly or  *)
(* transitively, nothing else, each once in the removed list.              *)
C5_RecursiveRemoveAlways ==
    [][\A t \in Tx :
         (t \in DOMAIN mapTx /\ lastOp' = Op("remove", t, TRUE, << >>))
            => RemovesExactlyDescendants(t)]_vars

(* C5, amended: the same, for a pool none of whose admissions claimed an   *)
(* outpoint another resident entry already claimed.                        *)
C5_RecursiveRemoveUnderContract ==
    [][\A t \in Tx :
         (contractHeld /\ t \in DOMAIN mapTx /\ lastOp' = Op("remove", t, TRUE, << >>))
            => RemovesExactlyDescendants(t)]_vars

C5_Witness ==
    /\ contractHeld
    /\ lastOp = Op("remove", 1, TRUE, << >>)
    /\ removed = << 1, 2, 3 >>
    /\ DOMAIN mapTx = {}
    /\ nTransactionsUpdated = 6


(* no outpoint is spent by two resident entries *)
NoDoubleSpend ==
    \A h1 \in DOMAIN mapTx, h2 \in DOMAIN mapTx :
        h1 # h2 => Range(TxVin[mapTx[h1].tx]) \cap Range(TxVin[mapTx[h2].tx]) = {}

(* C1, as claimed: with threads that each call removeConflicts(tx) and     *)
(* then addUnchecked(hash(tx), entry) as two separate pool calls, no two   *)
(* resident entries ever spend the same outpoint.                          *)
C1_NoDoubleSpendAlways == NoDoubleSpend

(* C1, amended: no two resident entries spend the same outpoint as long as *)
(* no other thread's pool call has run between a thread's removeConflicts  *)
(* and its addUnchecked.                                                   *)
C1_NoDoubleSpendUnlessRaced == ~raced => NoDoubleSpend

C1_Witness ==
    /\ ~raced
    /\ callers["a"] = [pc |-> "idle", tx |-> 1]
    /\ callers["b"] = [pc |-> "idle", tx |-> 4]
    /\ lastOp = Op("addUnchecked", 4, FALSE, << >>)
    /\ removed = << 1 >>
    /\ DOMAIN mapTx = {4}

(* the resident entries other than t that spend an outpoint t spends *)
ConflictsOf(t) ==
    { h \in DOMAIN mapTx \ {t} :
        Range(TxVin[mapTx[h].tx]) \cap Range(TxVin[t]) # {} }

(* a removeConflicts(t) step, t not resident, evicts every conflict of t   *)
(* with its descendants                                                    *)
EvictsConflicts(t) ==
    (t \notin DOMAIN mapTx /\ lastOp' = Op("removeConflicts", t, FALSE, << >>))
        => \A h \in ConflictsOf(t) : Descendants(h) \cap DOMAIN mapTx' = {}

(* an addUnchecked(t) step right after removeConflicts(t) adds t and       *)
(* nothing else, and indexes every input of t to t at that input's index   *)
AdmitsAfterEviction(t) ==
    (t \notin DOMAIN mapTx
        /\ lastOp = Op("removeConflicts", t, FALSE, << >>)
        /\ lastOp' = Op("addUnchecked", t, FALSE, << >>))
        => /\ DOMAIN mapTx' = DOMAIN mapTx \cup {t}
           /\ \A i \in 1 .. Len(TxVin[t]) :
                 /\ TxVin[t][i] \in DOMAIN mapNextTx'
                 /\ mapNextTx'[TxVin[t][i]] = CInPoint(t, i - 1)

(* C6, as claimed: if T1 spending O is resident and T2 also spends O, then *)
(* after removeConflicts(T2) and addUnchecked(T2) T1 and its descendants   *)
(* are not resident, T2 is, and mapNextTx maps O to T2 at the index of the *)
(* input of T2 that spends O.                                              *)
C6_ConflictEvictionAlways ==
    [][\A t \in Tx : EvictsConflicts(t) /\ AdmitsAfterEviction(t)]_vars

(* C6, amended: the same, for a pool none of whose admissions claimed an   *)
(* outpoint another resident entry already claimed.                        *)
C6_ConflictEvictionUnderContract ==
    [][\A t \in Tx :
         contractHeld => (EvictsConflicts(t) /\ AdmitsAfterEviction(t))]_vars

C6_Witness ==
    /\ contractHeld
    /\ ~raced
    /\ callers["a"] = [pc |-> "idle", tx |-> 4]
    /\ lastOp = Op("addUnchecked", 4, FALSE, << >>)
    /\ removed = << 1, 2 >>
    /\ DOMAIN mapTx = {4}
    /\ mapNextTx[COutPoint(11, 0)] = CInPoint(4, 1)


(* C7: a delta recorded for h stays as it is across remove,                *)
(* removeConflicts, removeCoinbaseSpends and clear, resident or not, and   *)
(* leaves mapDeltas exactly when h is a transaction of a removeForBlock    *)
(* call or ClearPrioritisation(h) is called.                               *)
C7_DeltaSurvivesEviction ==
    [][\A h \in DOMAIN mapDeltas :
         /\ lastOp'.op \in {"remove", "removeConflicts", "removeCoinbaseSpends", "clear"}
               => (h \in DOMAIN mapDeltas' /\ mapDeltas'[h] = mapDeltas[h])
         /\ h \notin DOMAIN mapDeltas'
               <=> \/ lastOp'.op = "removeForBlock" /\ h \in Range(lastOp'.vtx)
                   \/ lastOp' = Op("ClearPrioritisation", h, FALSE, << >>)]_vars

C7_Witness ==
    /\ lastOp = Op("removeConflicts", 4, FALSE, << >>)
    /\ removed = << 1, 2 >>
    /\ 1 \in DOMAIN mapDeltas
    /\ mapDeltas[1] = << 2, 4 >>
    /\ 4 \notin DOMAIN mapDeltas

(* C8: when removeForBlock confirms a resident transaction whose           *)
(* observation is pending, the observation is still pending when           *)
(* processBlock receives the entry, so it becomes a confirmation sample.   *)
C8_ConfirmedPendingBecomesSample ==
    [][lastOp'.op = "removeForBlock"
         => \A t \in Range(lastOp'.vtx) :
               (t \in DOMAIN mapTx /\ t \in pending) => t \in samples']_vars


-----------------------------------------------------------------------------
\* a step that is one call to GetMinFee, and what the call returned
IsCall == Len(feeReturns') = Len(feeReturns) + 1

Returned == feeReturns'[Len(feeReturns')]

\* the call recomputed the stored rate
Recomputed == lastRollingFeeUpdate' # lastRollingFeeUpdate

(* C9: every value GetMinFee returns is zero or at least minRelayFee, and  *)
(* a call returns zero only when the stored rolling minimum was zero, or   *)
(* when the call recomputed it, found it below half of minRelayFee (the    *)
(* half the code takes, minRelayFee.GetFeePerK() / 2) and stored zero.     *)
C9_ZeroOrAtLeastBaseline ==
    [][IsCall =>
        /\ Returned = 0 \/ Returned >= minRelayFee
        /\ Returned = 0 =>
            \/ rollingMinimumFeeRate = 0
            \/ /\ Recomputed
               /\ rollingMinimumFeeRate' = 0
               /\ \E sizelimit \in {0, 2, 8} :
                    Decay(rollingMinimumFeeRate, now - lastRollingFeeUpdate,
                          Halflife(sizelimit)) < HalfRelayFee]_vars

\* a rate above the baseline was reported, and a later call snapped a
\* stored non-zero rate to zero
C9_Witness ==
    /\ Len(feeReturns) >= 2
    /\ feeReturns[1] > minRelayFee
    /\ feeReturns[Len(feeReturns)] = 0
    /\ feeReturns[Len(feeReturns) - 1] >= minRelayFee
    /\ rollingMinimumFeeRate = 0
    /\ lastRollingFeeUpdate = now

-----------------------------------------------------------------------------
\* the step is a call of ReadFeeEstimates on a file with both versions
ReadStep == readResult' # "none" /\ Len(stream) >= 2

\* the samples of the file, after its two versions
Body == SubSeq(stream, 3, Len(stream))

\* Read meets a fee sample or a priority sample that is not sane
MeetsInsaneSample ==
    LET f == Unserialize(Body)
    IN  /\ f.ok
        /\ \/ ~AreSaneFees(f.vec)
           \/ LET q == Unserialize(f.rest) IN q.ok /\ ~AreSanePriorities(q.vec)

(* C11: when CBlockAverage::Read meets a fee sample that is negative or    *)
(* above 10000 times minRelayFee, or a negative priority sample,           *)
(* ReadFeeEstimates returns false and both sample rings are as they were   *)
(* before the read.                                                        *)
C11_FailedReadLeavesRings ==
    [][(ReadStep /\ readInvoked' /\ MeetsInsaneSample)
          => /\ readResult' = "false"
             /\ feeSamples' = feeSamples
             /\ prioritySamples' = prioritySamples]_vars

(* C12: ReadFeeEstimates on a file whose required version exceeds          *)
(* CLIENT_VERSION returns false without invoking the estimator's Read and  *)
(* leaves the estimator and the pool as they were; a required version of   *)
(* at most CLIENT_VERSION goes on to Read.                                 *)
C12_UpVersionRefused ==
    [][ReadStep =>
          /\ stream[1] > CLIENT_VERSION
                => /\ readResult' = "false"
                   /\ ~readInvoked'
                   /\ UNCHANGED <<feeSamples, prioritySamples, poolVars, feeVars>>
          /\ stream[1] <= CLIENT_VERSION => readInvoked']_vars

\* a file one version too new was refused by an estimator that holds samples
C12_Witness ==
    /\ Len(stream) >= 2
    /\ stream[1] = CLIENT_VERSION + 1
    /\ readResult = "false"
    /\ ~readInvoked
    /\ feeSamples = << 5, 80000 >>
    /\ prioritySamples = << 7 >>

\* the second CBlockAverage holds what the first one holds
Reproduced ==
    /\ ~restored.thrown
    /\ restored.feeSamples = feeSamples
    /\ restored.prioritySamples = prioritySamples
    /\ Len(restored.feeSamples) <= RingCapacity
    /\ Len(restored.prioritySamples) <= RingCapacity

(* C13, as claimed: after any sequence of RecordFee and RecordPriority     *)
(* calls, Write followed by Read into an empty CBlockAverage reproduces    *)
(* both rings, same samples in the same order, at most the capacity of     *)
(* each.                                                                   *)
C13_RoundTripAlways == restored.done => Reproduced

(* C13, amended: the same, when every sample the rings hold is sane: no    *)
(* fee negative or above 10000 times minRelayFee, no priority negative.    *)
C13_RoundTripOfSaneSamples ==
    (restored.done /\ AreSaneFees(feeSamples) /\ AreSanePriorities(prioritySamples))
        => Reproduced

\* full rings, an older sample aged out, written and read back
C13_Witness ==
    /\ restored.done
    /\ ~restored.thrown
    /\ feeSamples = << 5, 80000 >>
    /\ prioritySamples = << 7, 7 >>
    /\ restored.feeSamples = << 5, 80000 >>
    /\ restored.prioritySamples = << 7, 7 >>


-----------------------------------------------------------------------------
(* C14: GetPriority(currentHeight) is priorityAtAcceptance +               *)
(* (currentHeight - acceptanceHeight) * (totalOutputValue + fee) /         *)
(* modifiedSize for every entry and every height, the difference of the    *)
(* heights being their signed difference.                                  *)
C14_PriorityBySignedHeightDifference ==
    dResult.asked =>
        /\ dResult.dPriority = theEntry.dPriority
        /\ dResult.nModSize = theEntry.nModSize
        /\ dResult.numerator =
              (dResult.currentHeight - theEntry.nHeight)
                  * (theEntry.nValueOut + theEntry.nFee)


-----------------------------------------------------------------------------
\* the step is a call of GetCoins
GetCoinsStep == coinsResult'.calls = coinsResult.calls + 1

(* C15: GetCoins(txid) succeeds exactly when txid is resident or the view  *)
(* underneath returns a record that is not pruned; for a resident txid the *)
(* result is the record made from the pool transaction at MEMPOOL_HEIGHT,  *)
(* whatever the view underneath holds for txid.                            *)
C15_PoolRecordFirst ==
    [][GetCoinsStep =>
        LET txid == coinsResult'.txid
        IN  /\ coinsResult'.ok <=> (txid \in DOMAIN mapTx \/ base[txid] = "unspent")
            /\ txid \in DOMAIN mapTx =>
                  coinsResult'.coins = [tx |-> mapTx[txid].tx,
                                        nHeight |-> MEMPOOL_HEIGHT,
                                        pruned |-> FALSE]]_vars

\* a resident transaction for which the view underneath holds a pruned
\* record was looked up, after a lookup that failed on a pruned record
C15_Witness ==
    /\ coinsResult.calls = 2
    /\ coinsResult.txid = 1
    /\ 1 \in DOMAIN mapTx
    /\ base[1] = "pruned"
    /\ base[11] = "pruned"
    /\ coinsResult.ok
    /\ coinsResult.coins.nHeight = MEMPOOL_HEIGHT

-----------------------------------------------------------------------------
(* the resident transactions with an input whose source transaction is     *)
(* not among pool and is missing from pcoins or is a coinbase or coinstake *)
(* short of maturity at nMemPoolHeight                                     *)
SpendsUnusable(pool, pcoins, nMemPoolHeight) ==
    { t \in pool :
        \E i \in 1 .. Len(TxVin[t]) :
            LET src == TxVin[t][i].hash
            IN  /\ src \notin pool
                /\ \/ pcoins[src].null
                   \/ /\ pcoins[src].fCoinBase
                      /\ nMemPoolHeight - pcoins[src].nHeight < COINBASE_MATURITY }

(* C16: in a pool none of whose admissions claimed an outpoint already     *)
(* claimed, for either setting of the sanity-check flag,                   *)
(* removeCoinbaseSpends(coins, poolHeight) evicts exactly the entries that *)
(* spend a missing or immature source that is not resident, with their     *)
(* pool descendants, and leaves no such entry behind.                      *)
C16_EvictsUnusableSpends ==
    [][\A pcoins \in CoinViews, h \in Heights :
         (contractHeld /\ RemoveCoinbaseSpends(pcoins, h))
            => /\ DOMAIN mapTx' =
                     DOMAIN mapTx \ Closure(SpendsUnusable(DOMAIN mapTx, pcoins, h))
               /\ SpendsUnusable(DOMAIN mapTx', pcoins, h) = {}]_vars

-----------------------------------------------------------------------------
(* C18: addUnchecked(hash, entry) for a hash that is resident with that    *)
(* same entry changes neither the entries, nor the spend index, nor        *)
(* totalTxSize, nor the estimator's pending observations.                  *)
C18_DuplicateAdmissionIsNoOp ==
    [][\A t \in Tx :
         (/\ t \in DOMAIN mapTx
          /\ mapTx[t] = CTxMemPoolEntry(PoolState, t)
          /\ lastOp' = Op("addUnchecked", t, FALSE, << >>))
            => /\ mapTx' = mapTx
               /\ mapNextTx' = mapNextTx
               /\ totalTxSize' = totalTxSize
               /\ pending' = pending]_vars

-----------------------------------------------------------------------------
(* each record of the index names a resident transaction whose input n     *)
(* spends the record's outpoint                                            *)
RecordsNameInputs ==
    \A o \in DOMAIN mapNextTx :
        LET r == mapNextTx[o]
        IN  /\ r.ptx \in DOMAIN mapTx
            /\ r.n + 1 \in 1 .. Len(TxVin[mapTx[r.ptx].tx])
            /\ TxVin[mapTx[r.ptx].tx][r.n + 1] = o

(* every input of every resident entry has its record *)
InputsHaveRecords ==
    \A h \in DOMAIN mapTx :
        \A i \in 1 .. Len(TxVin[mapTx[h].tx]) :
            /\ TxVin[mapTx[h].tx][i] \in DOMAIN mapNextTx
            /\ mapNextTx[TxVin[mapTx[h].tx][i]] = CInPoint(h, i - 1)

(* C19: while no admission has claimed an outpoint that another resident   *)
(* entry claimed, after any sequence of addUnchecked, remove,              *)
(* removeConflicts, removeForBlock and clear the spend index is exactly    *)
(* the union of the resident entries' inputs: each record names a resident *)
(* transaction whose input n spends that outpoint, and every input of      *)
(* every resident entry has such a record.                                 *)
C19_IndexIsUnionOfInputs == contractHeld => (RecordsNameInputs /\ InputsHaveRecords)

\* a two-input transaction and a chain are resident after a removal
C19_Witness ==
    /\ contractHeld
    /\ lastOp.op = "remove"
    /\ DOMAIN mapTx = {2, 3, 4}
    /\ Cardinality(DOMAIN mapNextTx) = 4

-----------------------------------------------------------------------------
\* the resident spenders of t's outputs with all their pool descendants go
RemovesSpendersOfAbsent(t) ==
    DOMAIN mapTx' = DOMAIN mapTx \ Closure(SpendersOf({t}))

\* entries, spend index, size total and updated counter stay as they were
RemoveChangesNothing ==
    /\ mapTx' = mapTx
    /\ mapNextTx' = mapNextTx
    /\ totalTxSize' = totalTxSize
    /\ nTransactionsUpdated' = nTransactionsUpdated

(* C20, as claimed: remove(tx, removed, true) for a tx that is not         *)
(* resident removes every resident transaction that spends an output of tx *)
(* together with all of their pool descendants; with fRecursive false and  *)
(* tx not resident the call changes nothing.                               *)
C20_RemoveOfAbsentAlways ==
    [][\A t \in Tx :
         t \notin DOMAIN mapTx
            => /\ lastOp' = Op("remove", t, TRUE, << >>) => RemovesSpendersOfAbsent(t)
               /\ lastOp' = Op("remove", t, FALSE, << >>) => RemoveChangesNothing]_vars

(* C20, amended: the same, for a pool none of whose admissions claimed an  *)
(* outpoint another resident entry already claimed.                        *)
C20_RemoveOfAbsentUnderContract ==
    [][\A t \in Tx :
         (contractHeld /\ t \notin DOMAIN mapTx)
            => /\ lastOp' = Op("remove", t, TRUE, << >>) => RemovesSpendersOfAbsent(t)
               /\ lastOp' = Op("remove", t, FALSE, << >>) => RemoveChangesNothing]_vars

\* remove(1, recursive) found 1 absent and took its spender 2 and 2's
\* spender 3
C20_Witness ==
    /\ contractHeld
    /\ lastOp = Op("remove", 1, TRUE, << >>)
    /\ removed = << 2, 3 >>
    /\ DOMAIN mapTx = {}

-----------------------------------------------------------------------------
(* Threads on one pool.  Every operation of the file takes the pool lock   *)
(* cs on entry and holds it to its end, so a call made while the lock is   *)
(* free is one step.  removeForBlock is followed through its loop while it *)
(* holds the lock, and check through its log line, which reads             *)
(* mapTx.size() and mapNextTx.size() before it takes the lock.             *)
ThreadAddUnchecked(t) == cs = "none" /\ AddUnchecked(t, FALSE)

ThreadRemove(t, fRecursive) == cs = "none" /\ Remove(t, fRecursive)

ThreadPrioritise(hash) == cs = "none" /\ Prioritise(hash, 1, 2)

ThreadLookup(hash) ==
    /\ cs = "none"
    /\ Running
    /\ lookedUp' = lookup(hash)
    /\ lastOp' = Op("lookup", hash, FALSE, << >>)
    /\ UNCHANGED <<mapTx, mapNextTx, totalTxSize, nTransactionsUpdated, mapDeltas,
                   pending, samples, fSanityCheck, asserted, removed, callers,
                   raced, contractHeld, feeVars, avgVars, entryVars, viewVars,
                   cs, blockCall, audit, watchVars>>

\* what a step of a call in progress leaves alone
outsideCall ==
    <<fSanityCheck, callers, raced, contractHeld, feeVars, avgVars, entryVars,
      viewVars, lookedUp, watchVars>>

(* removeForBlock: LOCK(cs) and the capture of the resident entries of vtx *)
BlockLock(vtx) ==
    /\ Running
    /\ cs = "none"
    /\ blockCall.pc = "idle"
    /\ cs' = "block"
    /\ blockCall' = [pc |-> "loop", vtx |-> vtx, i |-> 1,
                     entries |-> CapturedEntries(PoolState, vtx)]
    /\ Commit(FreshList, Op("removeForBlock", 0, FALSE, vtx))
    /\ UNCHANGED <<outsideCall, audit>>

(* removeForBlock: one pass of its second loop *)
BlockStep ==
    /\ cs = "block"
    /\ blockCall.pc = "loop"
    /\ blockCall.i <= Len(blockCall.vtx)
    /\ Commit(BlockLoop(PoolState, << blockCall.vtx[blockCall.i] >>, 1), lastOp)
    /\ blockCall' = [blockCall EXCEPT !.i = @ + 1]
    /\ UNCHANGED <<outsideCall, audit, cs>>

(* removeForBlock: processBlock and the release of the lock on return *)
BlockUnlock ==
    /\ cs = "block"
    /\ blockCall.pc = "loop"
    /\ blockCall.i > Len(blockCall.vtx)
    /\ Commit(processBlock(PoolState, blockCall.entries, FALSE), lastOp)
    /\ blockCall' = NoBlockCall
    /\ cs' = "none"
    /\ UNCHANGED <<outsideCall, audit>>

(* check: with sanity checking on, the log line reads the two sizes; the   *)
(* lock is not held, so the read falls wherever the other threads are      *)
CheckLog ==
    /\ ~asserted
    /\ fSanityCheck
    /\ audit.pc = "idle"
    /\ audit' = [pc |-> "logged",
                 transactions |-> Cardinality(DOMAIN mapTx),
                 inputs |-> Cardinality(DOMAIN mapNextTx)]
    /\ UNCHANGED <<poolVars, feeVars, avgVars, entryVars, viewVars, cs, blockCall,
                   lookedUp, watchVars>>

(* check: LOCK(cs) and the audit, of which the assertions on the spend     *)
(* index and on the size total are followed                                *)
CheckAudit ==
    /\ cs = "none"
    /\ audit.pc = "logged"
    /\ audit' = [audit EXCEPT !.pc = "idle"]
    /\ asserted' = ~(RecordsNameInputs /\ InputsHaveRecords /\ TotalSizeIsSum)
    /\ UNCHANGED <<mapTx, mapNextTx, totalTxSize, nTransactionsUpdated, mapDeltas,
                   pending, samples, removed, lastOp, outsideCall, cs, blockCall>>

(* a chain of two transactions, confirmed together in one block *)
NextThreads ==
    \/ SetSanityCheck(TRUE)
    \/ \E t \in {1, 2} : ThreadAddUnchecked(t)
    \/ ThreadRemove(2, FALSE)
    \/ ThreadPrioritise(1)
    \/ ThreadLookup(1)
    \/ BlockLock(<< 2, 1 >>)
    \/ BlockStep
    \/ BlockUnlock
    \/ CheckLog
    \/ CheckAudit

SpecThreads == Init /\ [][NextThreads]_vars

\* some of the entries the call captured are gone and some are resident
PartlyRemoved ==
    /\ blockCall.pc = "loop"
    /\ \E e \in Range(blockCall.entries) : e.tx \notin DOMAIN mapTx
    /\ \E e \in Range(blockCall.entries) : e.tx \in DOMAIN mapTx

\* the step is the log line of check
CheckLogStep == audit.pc = "idle" /\ audit'.pc = "logged"

(* C17: removeForBlock is atomic with respect to every other operation:    *)
(* while it is in its loop no other thread's admit, remove, query or       *)
(* prioritise takes a step, and no thread reads the pool in a state where  *)
(* only part of the block's transactions have been removed.                *)
C17_RemoveForBlockAtomic ==
    [][/\ (blockCall.pc = "loop" /\ blockCall' = blockCall)
            => UNCHANGED <<mapTx, mapNextTx, totalTxSize, nTransactionsUpdated,
                           mapDeltas, lookedUp>>
       /\ CheckLogStep => ~PartlyRemoved]_vars

-----------------------------------------------------------------------------
(* The callers that watch the counter.  nTransactionsUpdated is an         *)
(* unsigned int; the calls are followed while it is below MaxUpdated, far  *)
(* from the width at which it would wrap.                                  *)

(* CTxMemPool::AddTransactionsUpdated *)
AddTransactionsUpdated(n) ==
    /\ Running
    /\ nTransactionsUpdated' = nTransactionsUpdated + n
    /\ lastOp' = Op("AddTransactionsUpdated", n, FALSE, << >>)
    /\ UNCHANGED <<mapTx, mapNextTx, totalTxSize, mapDeltas, pending, samples,
                   fSanityCheck, asserted, removed, callers, raced, contractHeld,
                   feeVars, extVars>>

(* CTxMemPool::GetTransactionsUpdated: the caller keeps the value it read, *)
(* and what was resident when it read it                                   *)
GetTransactionsUpdated ==
    /\ Running
    /\ seen' = [taken |-> TRUE, nTransactionsUpdated |-> nTransactionsUpdated,
                vtxid |-> DOMAIN mapTx]
    /\ lastOp' = Op("GetTransactionsUpdated", 0, FALSE, << >>)
    /\ UNCHANGED <<mapTx, mapNextTx, totalTxSize, nTransactionsUpdated, mapDeltas,
                   pending, samples, fSanityCheck, asserted, removed, callers,
                   raced, contractHeld, feeVars, avgVars, entryVars, viewVars,
                   threadVars, checkCall>>

NextCounter ==
    \/ \E t \in PrioTx : AddUnchecked(t, FALSE)
    \/ \E t \in PrioTx, f \in BOOLEAN : Remove(t, f)
    \/ \E t \in PrioTx : RemoveConflicts(t)
    \/ \E vtx \in PrioBlocks : RemoveForBlock(vtx, FALSE)
    \/ \E pcoins \in PrioViews, h \in Heights : RemoveCoinbaseSpends(pcoins, h)
    \/ Clear
    \/ AddTransactionsUpdated(1)
    \/ GetTransactionsUpdated

SpecCounter == Init /\ [][NextCounter]_vars

\* the calls that remove entries
Removals == {"remove", "removeConflicts", "removeForBlock", "removeCoinbaseSpends"}

(* C21: the transactions-updated counter never decreases; it grows by      *)
(* exactly 1 per addUnchecked, by exactly 1 per entry a removing call      *)
(* actually removed, and by exactly 1 per clear; every call that changes   *)
(* the set of resident entries increases it, so a caller that reads the    *)
(* value it read before finds the pool content it saw before.              *)
C21_CounterTracksContent ==
    [][/\ nTransactionsUpdated' >= nTransactionsUpdated
       /\ lastOp'.op = "addUnchecked"
            => nTransactionsUpdated' = nTransactionsUpdated + 1
       /\ lastOp'.op \in Removals
            => nTransactionsUpdated' =
                  nTransactionsUpdated + Cardinality(DOMAIN mapTx \ DOMAIN mapTx')
       /\ lastOp'.op = "clear"
            => nTransactionsUpdated' = nTransactionsUpdated + 1
       /\ DOMAIN mapTx' # DOMAIN mapTx
            => nTransactionsUpdated' > nTransactionsUpdated
       /\ (seen'.taken /\ seen'.nTransactionsUpdated = nTransactionsUpdated')
            => seen'.vtxid = DOMAIN mapTx']_vars

\* a caller read the counter at 2 with 1 and 2 resident; a recursive remove
\* of 1 then took both and the counter stands at 4
C21_Witness ==
    /\ seen.taken
    /\ seen.nTransactionsUpdated = 2
    /\ seen.vtxid = {1, 2}
    /\ lastOp = Op("remove", 1, TRUE, << >>)
    /\ removed = << 1, 2 >>
    /\ DOMAIN mapTx = {}
    /\ nTransactionsUpdated = 4

-----------------------------------------------------------------------------
(* The audit of check.  Besides the transactions of TxVin the pools it is  *)
(* run on hold 6 and 7, which spend each other's output: addUnchecked      *)
(* takes the hash from its caller and checks nothing, so only the audit    *)
(* stands between such a pair and the miner.                               *)
CheckVin == TxVin \o << << COutPoint(7, 0) >>, << COutPoint(6, 0) >> >>

CheckNVout == TxNVout \o << 1, 1 >>

CheckSize == TxSize \o << 180, 190 >>

CheckTx == 1 .. Len(CheckVin)

\* the most entries a pool handed to check holds
MaxResident == 3

Pools == { S \in SUBSET CheckTx : Cardinality(S) <= MaxResident }

\* the outpoints the entries of S spend
Claimed(S) == UNION { Range(CheckVin[t]) : t \in S }

\* the entries of S that spend o
ClaimersOf(S, o) == { t \in S : o \in Range(CheckVin[t]) }

(* mapNextTx after the entries of S were admitted in ascending or in       *)
(* descending order of their numbers: the record of an outpoint names the  *)
(* entry admitted last                                                     *)
IndexOf(S, ascending) ==
    [o \in Claimed(S) |->
        LET last == CHOOSE t \in ClaimersOf(S, o) :
                        \A u \in ClaimersOf(S, o) :
                            IF ascending THEN u <= t ELSE t <= u
            n == CHOOSE i \in 1 .. Len(CheckVin[last]) : CheckVin[last][i] = o
        IN  CInPoint(last, n - 1)]

(* the pool check is called on: entries, index and size total as a run of  *)
(* admissions leaves them, sanity checking switched on                     *)
InitCheck ==
    /\ \E S \in Pools, ascending \in BOOLEAN :
          /\ mapTx = [t \in S |-> [tx |-> t, nTxSize |-> CheckSize[t],
                                    hadNoDependencies |-> TRUE]]
          /\ mapNextTx = IndexOf(S, ascending)
          /\ totalTxSize = SumOver(S, CheckSize)
          /\ nTransactionsUpdated = Cardinality(S)
          /\ contractHeld = \A o \in Claimed(S) : Cardinality(ClaimersOf(S, o)) = 1
    /\ mapDeltas = << >>
    /\ pending = {}
    /\ samples = {}
    /\ fSanityCheck = TRUE
    /\ asserted = FALSE
    /\ removed = << >>
    /\ lastOp = Op("init", 0, FALSE, << >>)
    /\ callers = [c \in Callers |-> [pc |-> "idle", tx |-> 0]]
    /\ raced = FALSE
    /\ cs = "none"
    /\ blockCall = NoBlockCall
    /\ audit = NoAudit
    /\ lookedUp = NotFound
    /\ IdleWatch
    /\ IdleFee
    /\ IdleExt

(* CCoinsViewCache::HaveInputs: every outpoint tx spends is in the view *)
HaveInputs(view, t) == Range(CheckVin[t]) \subseteq view

(* CheckInputs, as far as the coins go: the inputs are there to spend *)
CheckInputs(view, t) == HaveInputs(view, t)

(* UpdateCoins: the inputs of tx are spent, its outputs are added *)
UpdateCoins(view, t) ==
    (view \ Range(CheckVin[t])) \cup { COutPoint(t, n) : n \in 0 .. CheckNVout[t] - 1 }

StepsBelowQueueLessOne(stepsSinceLastRemove, size) == stepsSinceLastRemove < size - 1

(* assert(stepsSinceLastRemove < waitingOnDependants.size()) *)
StepsBelowQueue(stepsSinceLastRemove, size) == stepsSinceLastRemove < size

(* the first loop of check over mapTx, from the k-th entry of the          *)
(* iteration order on: the assertions on each input, then the entry is     *)
(* queued if an input is a pool output and replayed on the duplicate view  *)
(* if none is                                                              *)
RECURSIVE FirstLoop(_, _)
FirstLoop(c, k) ==
    IF k > Len(c.order) \/ c.fired # "none" THEN c
    ELSE LET t == c.order[k]
             vin == CheckVin[t]
             refersOk == \A i \in 1 .. Len(vin) :
                            IF vin[i].hash \in DOMAIN mapTx
                            THEN CheckNVout[vin[i].hash] > vin[i].n
                            ELSE vin[i] \in c.pcoins
             markedOk == \A i \in 1 .. Len(vin) :
                            /\ vin[i] \in DOMAIN mapNextTx
                            /\ mapNextTx[vin[i]] = CInPoint(t, i - 1)
             fDependsWait == \E i \in 1 .. Len(vin) : vin[i].hash \in DOMAIN mapTx
         IN  IF ~refersOk THEN [c EXCEPT !.fired = "inputs"]
             ELSE IF ~markedOk THEN [c EXCEPT !.fired = "index"]
             ELSE IF fDependsWait
                  THEN FirstLoop([c EXCEPT !.waitingOnDependants = Append(@, t)], k + 1)
                  ELSE IF ~CheckInputs(c.mempoolDuplicate, t)
                       THEN [c EXCEPT !.fired = "CheckInputs"]
                       ELSE FirstLoop([c EXCEPT !.mempoolDuplicate = UpdateCoins(@, t)],
                                      k + 1)

\* what a step of check leaves alone: it reads the pool and changes nothing
outsideCheck ==
    <<mapTx, mapNextTx, totalTxSize, nTransactionsUpdated, mapDeltas, pending,
      samples, fSanityCheck, removed, lastOp, callers, raced, contractHeld,
      feeVars, avgVars, entryVars, viewVars, threadVars, seen>>

(* check(pcoins), to the end of its first loop.  order is the order in     *)
(* which mapTx yields the entries: the order of their hashes, which has    *)
(* nothing to do with which spends which.                                  *)
CheckBegin(pcoins, order) ==
    /\ ~asserted
    /\ fSanityCheck
    /\ checkCall.pc = "idle"
    /\ LET c == FirstLoop([pc |-> "replay", order |-> order, pcoins |-> pcoins,
                           mempoolDuplicate |-> pcoins,
                           waitingOnDependants |-> << >>,
                           stepsSinceLastRemove |-> 0, fired |-> "none"], 1)
       IN  /\ checkCall' = c
           /\ asserted' = (c.fired # "none")
    /\ UNCHANGED outsideCheck

(* one pass of while (!waitingOnDependants.empty()) *)
CheckReplay ==
    /\ ~asserted
    /\ checkCall.pc = "replay"
    /\ checkCall.waitingOnDependants # << >>
    /\ LET entry == Head(checkCall.waitingOnDependants)
           rest == Tail(checkCall.waitingOnDependants)
       IN  IF ~HaveInputs(checkCall.mempoolDuplicate, entry)
           THEN LET steps == checkCall.stepsSinceLastRemove + 1
                    ok == StepsBelowQueue(steps, Len(rest) + 1)
                IN  /\ checkCall' = [checkCall EXCEPT
                                        !.waitingOnDependants = Append(rest, entry),
                                        !.stepsSinceLastRemove = steps,
                                        !.fired = IF ok THEN "none" ELSE "no progress"]
                    /\ asserted' = ~ok
           ELSE /\ checkCall' = [checkCall EXCEPT
                                    !.waitingOnDependants = rest,
                                    !.mempoolDuplicate = UpdateCoins(@, entry),
                                    !.stepsSinceLastRemove = 0]
                /\ asserted' = FALSE
    /\ UNCHANGED outsideCheck

(* the loop over mapNextTx and the assertion on the size total *)
CheckEnd ==
    /\ ~asserted
    /\ checkCall.pc = "replay"
    /\ checkCall.waitingOnDependants = << >>
    /\ LET recordsOk == \A o \in DOMAIN mapNextTx :
                            LET r == mapNextTx[o]
                            IN  /\ r.ptx \in DOMAIN mapTx
                                /\ Len(CheckVin[r.ptx]) > r.n
                                /\ CheckVin[r.ptx][r.n + 1] = o
           fired == IF ~recordsOk THEN "index"
                    ELSE IF ~TotalSizeIsSum THEN "total" ELSE "none"
       IN  /\ checkCall' = [checkCall EXCEPT !.pc = "done", !.fired = fired]
           /\ asserted' = (fired # "none")
    /\ UNCHANGED outsideCheck

\* the iteration orders of a pool
OrdersOf(S) ==
    { q \in [1 .. Cardinality(S) -> S] : \A i, j \in DOMAIN q : q[i] = q[j] => i = j }

(* the confirmed coins handed to check: every outpoint the pool spends of  *)
(* a transaction that is not resident, or all of them but one              *)
ViewsOf(S) ==
    LET confirmed == { o \in Claimed(S) : o.hash \notin S }
    IN  {confirmed} \cup { confirmed \ {o} : o \in confirmed }

NextCheck ==
    \/ \E pcoins \in ViewsOf(DOMAIN mapTx), order \in OrdersOf(DOMAIN mapTx) :
          CheckBegin(pcoins, order)
    \/ CheckReplay
    \/ CheckEnd

SpecCheck == InitCheck /\ [][NextCheck]_vars

(* check runs under the pool lock on a thread that is scheduled: a call    *)
(* that can take its next step takes it                                    *)
SpecCheckLive == SpecCheck /\ WF_vars(NextCheck)

\* the resident transactions whose outputs the entries of D spend
ParentsOf(D) ==
    { o.hash : o \in UNION { Range(CheckVin[t]) : t \in D } } \cap DOMAIN mapTx

RECURSIVE Upward(_)
Upward(D) == IF ParentsOf(D) \subseteq D THEN D ELSE Upward(D \cup ParentsOf(D))

\* no entry is among its own ancestors
Acyclic == \A t \in DOMAIN mapTx : t \notin Upward(ParentsOf({t}))

(* every input of every entry is an output of another resident entry or a *)
(* coin of the view check was given, and no entry depends on itself        *)
Resolves ==
    /\ checkCall.pc # "idle"
    /\ \A t \in DOMAIN mapTx :
          \A o \in Range(CheckVin[t]) :
              IF o.hash \in DOMAIN mapTx
              THEN o.hash # t /\ o.n < CheckNVout[o.hash]
              ELSE o \in checkCall.pcoins
    /\ Acyclic

InReplay == checkCall.pc = "replay" /\ ~asserted

\* no entry of the queue has its inputs in the duplicate view
Stuck ==
    /\ InReplay
    /\ checkCall.waitingOnDependants # << >>
    /\ \A e \in Range(checkCall.waitingOnDependants) :
          ~HaveInputs(checkCall.mempoolDuplicate, e)

(* C22: with sanity checking on, on a pool whose every input resolves to   *)
(* an output of another resident entry or to an available confirmed coin   *)
(* and whose dependency graph is acyclic, the replay loop of check, once   *)
(* reached, ends with the queue empty and its no-progress assertion never  *)
(* fires, whatever the iteration order of the entries; when no entry of    *)
(* the queue can be replayed, the assertion fires.                         *)
C22_ReplayTerminates ==
    /\ (InReplay /\ Resolves) ~>
          (checkCall.pc = "done" /\ checkCall.waitingOnDependants = << >>)
    /\ [](Resolves => checkCall.fired # "no progress")
    /\ Stuck ~> (checkCall.fired = "no progress")

\* the chain 1 <- 2 <- 3 iterated with 3 ahead of 2: 3 was deferred once and
\* the queue holds two entries
C22_Witness ==
    /\ InReplay
    /\ Resolves
    /\ DOMAIN mapTx = {1, 2, 3}
    /\ checkCall.waitingOnDependants = << 2, 3 >>
    /\ checkCall.stepsSinceLastRemove = 1

====
